---- MODULE Spec2Model ----
(***************************************************************************)
(* A model of t08/GNN_tutorial.ipynb: the GraphConvolution layer, the      *)
(* two-layer GCN, the accuracy utilities and the GCN training loop.        *)
(*                                                                         *)
(* Numbers.  A tensor is a record [den, val]: val holds integers and the   *)
(* tensor's real entries are val / den (den > 0).  Sums and products are   *)
(* exact, which is what the float32 kernels compute on the small dyadic    *)
(* values used here; rounding of general floats is not modelled.           *)
(* A failed call (a raised Python exception) is a record [err |-> name].   *)
(* Index tensors and label tensors are sequences of integers; positions    *)
(* are 0-based as in Python.                                               *)
(***************************************************************************)
EXTENDS Integers, Sequences, FiniteSets, TLC

VARIABLES
    features,   \* node feature matrix (global `features`)
    adj,        \* adjacency matrix (global `adj`)
    idx_train,  \* train index set (global `idx_train`)
    idx_test,   \* test index set (global `idx_test`)
    run,        \* per notebook process: labels, generator, model, optimizer, loop
    x2,         \* second feature matrix of a linearity experiment
    ca,         \* scalar multiplying `features` in a linearity experiment
    cb,         \* scalar multiplying `x2` in a linearity experiment
    conv        \* a GraphConvolution layer built on its own, with its two sizes

vars == <<features, adj, idx_train, idx_test, run, x2, ca, cb, conv>>

----------------------------------------------------------------------------
(* Bounds of the model *)

NumNodes == 2
InFeatures == 2
HiddenDim == 2
NumClasses == 2
Den == 2
MaxSeed == 1
MaxScalar == 2
MaxEpochs == 2
MaxFeatures == 4
MLPEpochs == 2
Seed == 4

Runs == {1, 2}
Main == 1

----------------------------------------------------------------------------
(* Sequences and matrices *)

RECURSIVE SeqSum(_)
SeqSum(s) == IF s = <<>> THEN 0 ELSE Head(s) + SeqSum(Tail(s))

Dot(u, v) == SeqSum([k \in 1..Len(u) |-> u[k] * v[k]])

Rows(m) == Len(m)
Cols(m) == IF Len(m) = 0 THEN 0 ELSE Len(m[1])
Column(m, j) == [i \in 1..Rows(m) |-> m[i][j]]

MatMul(a, b) == [i \in 1..Rows(a) |-> [j \in 1..Cols(b) |-> Dot(a[i], Column(b, j))]]

Err(name) == [err |-> name]
None == [none |-> TRUE]
IsErr(t) == "err" \in DOMAIN t

Tensor(d, v) == [den |-> d, val |-> v]

----------------------------------------------------------------------------
(* torch kernels used by the layer *)

\* torch.mm(x, w): dense product; the inner dimensions must agree.
mm(x, w) ==
    IF Cols(x.val) # Rows(w.val)
    THEN Err("RuntimeError")
    ELSE Tensor(x.den * w.den, MatMul(x.val, w.val))

\* Mutant of torch.spmm: the sum over neighbours stops before the last node.
M_spmm_skip_last_node(a, support) ==
    IF Cols(a.val) # Rows(support.val)
    THEN Err("RuntimeError")
    ELSE Tensor(a.den * support.den,
                MatMul([i \in 1..Rows(a.val) |-> SubSeq(a.val[i], 1, Cols(a.val) - 1)],
                       SubSeq(support.val, 1, Rows(support.val) - 1)))

\* torch.spmm(adj, support): sparse-dense product, same shape rule.
spmm(a, support) ==
    IF Cols(a.val) # Rows(support.val)
    THEN Err("RuntimeError")
    ELSE Tensor(a.den * support.den, MatMul(a.val, support.val))

\* Mutant of add_bias: the first bias entry is added to every column.
M_add_bias_first_entry(output, bias) ==
    IF Cols(output.val) # Len(bias.val)
    THEN Err("RuntimeError")
    ELSE Tensor(output.den * bias.den,
                [i \in 1..Rows(output.val) |->
                    [j \in 1..Len(bias.val) |->
                        output.val[i][j] * bias.den + bias.val[1] * output.den]])

\* output + bias: the bias vector is broadcast across the rows.
add_bias(output, bias) ==
    IF Cols(output.val) # Len(bias.val)
    THEN Err("RuntimeError")
    ELSE Tensor(output.den * bias.den,
                [i \in 1..Rows(output.val) |->
                    [j \in 1..Len(bias.val) |->
                        output.val[i][j] * bias.den + bias.val[j] * output.den]])

\* F.relu, elementwise.
relu(x) == Tensor(x.den, [i \in 1..Rows(x.val) |->
                            [j \in 1..Cols(x.val) |->
                                IF x.val[i][j] > 0 THEN x.val[i][j] ELSE 0]])

----------------------------------------------------------------------------
(* GraphConvolution *)

\* Mutant of GraphConvolution.forward: the bias is never added.
M_forward_no_bias(layer, x, a) ==
    LET support == mm(x, layer.weight) IN
    IF IsErr(support) THEN support
    ELSE spmm(a, support)

\* Mutant of GraphConvolution.forward: the bias is added before the
\* aggregation over neighbours, A.(X.W + b).
M_forward_bias_before_spmm(layer, x, a) ==
    LET support == mm(x, layer.weight) IN
    IF IsErr(support) THEN support
    ELSE LET biased == add_bias(support, layer.bias) IN
         IF IsErr(biased) THEN biased
         ELSE spmm(a, biased)

\* GraphConvolution.forward(x, adj)
GraphConvolution_forward(layer, x, a) ==
    LET support == mm(x, layer.weight) IN
    IF IsErr(support) THEN support
    ELSE LET output == spmm(a, support) IN
         IF IsErr(output) THEN output
         ELSE add_bias(output, layer.bias)

\* Mutant of GCN.forward: the rectifier between the layers is missing.
M_GCN_forward_no_relu(model, x, a) ==
    LET h1 == GraphConvolution_forward(model.gc1, x, a) IN
    IF IsErr(h1) THEN h1
    ELSE GraphConvolution_forward(model.gc2, h1, a)

\* GCN.forward(x, adj)
GCN_forward(model, x, a) ==
    LET h1 == GraphConvolution_forward(model.gc1, x, a) IN
    IF IsErr(h1) THEN h1
    ELSE LET h2 == relu(h1) IN
         GraphConvolution_forward(model.gc2, h2, a)

----------------------------------------------------------------------------
(* Indexing and the accuracy utilities *)

\* tensor[idx] with an index tensor: position v selects row v, a negative v
\* in -n..-1 selects row n + v, anything else raises IndexError.
ValidIndex(v, n) == -n <= v /\ v < n
Position(v, n) == (IF v < 0 THEN v + n ELSE v) + 1
index(t, idx) ==
    IF \E k \in 1..Len(idx) : ~ValidIndex(idx[k], Len(t.val))
    THEN Err("IndexError")
    ELSE Tensor(t.den, [k \in 1..Len(idx) |-> t.val[Position(idx[k], Len(t.val))]])

\* The 0-based column of the first maximal entry of a row.
RECURSIVE argmax_scan(_, _, _)
argmax_scan(row, j, best) ==
    IF j > Len(row) THEN best - 1
    ELSE argmax_scan(row, j + 1, IF row[j] > row[best] THEN j ELSE best)

\* Mutant of output.max(1)[1]: output.max(1)[0], the maximal values.
M_max_values(output) ==
    [i \in 1..Rows(output.val) |->
        output.val[i][argmax_scan(output.val[i], 2, 1) + 1]]

\* output.max(1)[1]
max_indices(output) ==
    [i \in 1..Rows(output.val) |-> argmax_scan(output.val[i], 2, 1)]

\* preds.eq(labels).double(): elementwise, a one-element side is broadcast
eq_double(preds, labels) ==
    IF Len(preds) = Len(labels)
    THEN Tensor(1, [k \in 1..Len(preds) |-> IF preds[k] = labels[k] THEN 1 ELSE 0])
    ELSE IF Len(labels) = 1
    THEN Tensor(1, [k \in 1..Len(preds) |-> IF preds[k] = labels[1] THEN 1 ELSE 0])
    ELSE IF Len(preds) = 1
    THEN Tensor(1, [k \in 1..Len(labels) |-> IF preds[1] = labels[k] THEN 1 ELSE 0])
    ELSE Err("RuntimeError")

\* get_predictions(output, labels)
get_predictions(output, labels) == eq_double(max_indices(output), labels.val)

\* The float64 results of a division by zero.
NaN == [nan |-> TRUE]
Inf == [inf |-> TRUE]

\* accuracy(output, labels): correct.sum() / len(labels)
accuracy(output, labels) ==
    LET correct == get_predictions(output, labels) IN
    IF IsErr(correct) THEN correct
    ELSE LET total == SeqSum(correct.val) IN
         IF Len(labels.val) = 0
         THEN (IF total = 0 THEN NaN ELSE Inf)
         ELSE [num |-> total, den |-> Len(labels.val)]

\* gcn_accuracy(model) with the globals it reads; the mode it leaves the model
\* in, the logits of the whole graph and the returned accuracy
gcn_accuracy(model, feats, a, labels, idx) ==
    LET y_pred == GCN_forward(model, feats, a)
        selected == IF IsErr(y_pred) THEN y_pred ELSE index(y_pred, idx)
        wanted == IF IsErr(selected) THEN selected ELSE index(labels, idx)
    IN  [training |-> FALSE,
         y_pred |-> y_pred,
         acc |-> IF IsErr(wanted) THEN wanted ELSE accuracy(selected, wanted)]

----------------------------------------------------------------------------
(* The loss, its gradient and the optimizer.  These are torch's; the model  *)
(* keeps what they read and write and replaces the transcendental parts by  *)
(* exact stand-ins: log-sum-exp by the maximum (its low-temperature limit)  *)
(* and the size of an Adam step by one unit of the parameter grid.          *)

\* F.cross_entropy(input, target), mean reduction: the mean over the rows of
\* max_j input[k, j] - input[k, target[k]]; a target outside the classes
\* raises, an empty batch gives nan.
cross_entropy(input, target) ==
    LET n == Rows(input.val) IN
    IF n # Len(target.val) THEN Err("ValueError")
    ELSE IF \E k \in 1..n : target.val[k] \notin 0..(Cols(input.val) - 1)
    THEN Err("IndexError")
    ELSE IF n = 0 THEN NaN
    ELSE [num |-> SeqSum([k \in 1..n |->
                     input.val[k][argmax_scan(input.val[k], 2, 1) + 1]
                     - input.val[k][target.val[k] + 1]]),
          den |-> n * input.den]

\* Mutant of the loss: F.cross_entropy(output, labels), over every node.
M_train_loss_all_nodes(output, labels, idx) == cross_entropy(output, labels)

\* The loss of one iteration: F.cross_entropy(output[idx_train], labels[idx_train])
train_loss(output, labels, idx) ==
    LET selected == index(output, idx) IN
    IF IsErr(selected) THEN selected
    ELSE LET wanted == index(labels, idx) IN
         IF IsErr(wanted) THEN wanted
         ELSE cross_entropy(selected, wanted)

Transpose(m, cols) == [j \in 1..cols |-> [i \in 1..Len(m) |-> m[i][j]]]

ColumnSums(t, cols) == Tensor(t.den, [j \in 1..cols |-> SeqSum(Column(t.val, j))])

\* d loss / d output: row i collects, from every position k of idx that
\* selects it, +1 at the row's argmax and -1 at the label, over len(idx).
output_grad(output, labels, idx) ==
    LET n == Rows(output.val)
        hits(i) == {k \in 1..Len(idx) : Position(idx[k], n) = i}
        at(i, j) == IF argmax_scan(output.val[i], 2, 1) + 1 = j THEN 1 ELSE 0
        want(i, j) == IF labels.val[i] + 1 = j THEN 1 ELSE 0
    IN  Tensor(IF Len(idx) = 0 THEN 1 ELSE Len(idx),
               [i \in 1..n |-> [j \in 1..Cols(output.val) |->
                    Cardinality(hits(i)) * (at(i, j) - want(i, j))]])

\* The gradients loss.backward() computes for the four parameters, by the
\* chain rule through gc2, F.relu and gc1.
gradients(model, feats, a, labels, idx) ==
    LET n == Rows(feats.val)
        nh == Cols(model.gc1.weight.val)
        nc == Cols(model.gc2.weight.val)
        h1 == GraphConvolution_forward(model.gc1, feats, a)
        h == relu(h1)
        out == GraphConvolution_forward(model.gc2, h, a)
        g == output_grad(out, labels, idx)
        s2 == Tensor(a.den * g.den, MatMul(Transpose(a.val, n), g.val))
        dh == Tensor(s2.den * model.gc2.weight.den,
                     MatMul(s2.val, Transpose(model.gc2.weight.val, nc)))
        dh1 == Tensor(dh.den, [i \in 1..n |-> [j \in 1..nh |->
                     IF h1.val[i][j] > 0 THEN dh.val[i][j] ELSE 0]])
        s1 == Tensor(a.den * dh1.den, MatMul(Transpose(a.val, n), dh1.val))
    IN  [gc1 |-> [weight |-> Tensor(feats.den * s1.den,
                                    MatMul(Transpose(feats.val, Cols(feats.val)), s1.val)),
                  bias |-> ColumnSums(dh1, nh)],
         gc2 |-> [weight |-> Tensor(h.den * s2.den,
                                    MatMul(Transpose(h.val, nh), s2.val)),
                  bias |-> ColumnSums(g, nc)]]

\* p.grad += g for one parameter (matrix or vector)
AddMatrix(s, t) ==
    IF s.den = t.den
    THEN Tensor(s.den, [i \in 1..Len(s.val) |-> [j \in 1..Len(s.val[i]) |->
                            s.val[i][j] + t.val[i][j]]])
    ELSE Tensor(s.den * t.den, [i \in 1..Len(s.val) |-> [j \in 1..Len(s.val[i]) |->
                            s.val[i][j] * t.den + t.val[i][j] * s.den]])
AddVector(s, t) ==
    IF s.den = t.den
    THEN Tensor(s.den, [j \in 1..Len(s.val) |-> s.val[j] + t.val[j]])
    ELSE Tensor(s.den * t.den, [j \in 1..Len(s.val) |-> s.val[j] * t.den + t.val[j] * s.den])

AddLayer(s, t) == [weight |-> AddMatrix(s.weight, t.weight),
                   bias |-> AddVector(s.bias, t.bias)]

\* loss.backward(): the gradients are added to what .grad already holds
backward(grad, g) ==
    IF grad = None THEN g
    ELSE [gc1 |-> AddLayer(grad.gc1, g.gc1), gc2 |-> AddLayer(grad.gc2, g.gc2)]

\* Mutant of opt.zero_grad(): the stored gradients are left as they are.
M_zero_grad_keeps_gradients(grad) == grad

\* opt.zero_grad()
zero_grad(grad) == None

Sign(v) == IF v > 0 THEN 1 ELSE IF v < 0 THEN -1 ELSE 0

\* optim.Adam(params): step count and first moment, exp_avg, kept as the
\* numerator of exp_avg * 10^step over the gradient's denominator
Adam(model) ==
    LET zeros(layer) ==
            [weight |-> [i \in 1..Rows(layer.weight.val) |->
                            [j \in 1..Cols(layer.weight.val) |-> 0]],
             bias |-> [j \in 1..Len(layer.bias.val) |-> 0]]
    IN  [step |-> 0, exp_avg |-> [gc1 |-> zeros(model.gc1), gc2 |-> zeros(model.gc2)]]

\* opt.step(): exp_avg = 0.9 * exp_avg + 0.1 * grad, then every parameter
\* moves one grid unit against the sign of its exp_avg; parameters without a
\* gradient are skipped.
adam_step(model, opt, grad) ==
    IF grad = None THEN [model |-> model, opt |-> opt]
    ELSE
    LET avg(m, g) == [weight |-> [i \in 1..Len(m.weight) |-> [j \in 1..Len(m.weight[i]) |->
                                    9 * m.weight[i][j] + g.weight.val[i][j]]],
                      bias |-> [j \in 1..Len(m.bias) |-> 9 * m.bias[j] + g.bias.val[j]]]
        m1 == avg(opt.exp_avg.gc1, grad.gc1)
        m2 == avg(opt.exp_avg.gc2, grad.gc2)
        move(layer, m) ==
            [weight |-> Tensor(layer.weight.den,
                               [i \in 1..Len(m.weight) |-> [j \in 1..Len(m.weight[i]) |->
                                    layer.weight.val[i][j] - Sign(m.weight[i][j])]]),
             bias |-> Tensor(layer.bias.den,
                             [j \in 1..Len(m.bias) |-> layer.bias.val[j] - Sign(m.bias[j])])]
    IN  [model |-> [gc1 |-> move(model.gc1, m1), gc2 |-> move(model.gc2, m2)],
         opt |-> [step |-> opt.step + 1, exp_avg |-> [gc1 |-> m1, gc2 |-> m2]]]

----------------------------------------------------------------------------
(* The global random generator and parameter initialisation *)

\* torch.manual_seed(seed): the generator state is a function of the seed alone.
manual_seed(seed) == (40199 * (seed % 32768) + 12655) % 65536

\* One draw advances the generator (torch's generator, abstracted as a 16-bit
\* linear congruential generator).
gen_next(g) == (25173 * g + 13849) % 65536

RECURSIVE gen_skip(_, _)
gen_skip(g, k) == IF k = 0 THEN g ELSE gen_skip(gen_next(g), k - 1)

\* The value of a draw, uniform on the grid lo..hi.
gen_value(g, lo, hi) == lo + ((g \div 64) % (hi - lo + 1))

\* torch.FloatTensor(rows, cols) and torch.FloatTensor(n): uninitialised
\* storage, whose content `junk` is whatever the allocator left there.
FloatTensor(rows, cols, junk) ==
    Tensor(Den, [i \in 1..rows |-> [j \in 1..cols |-> junk]])
FloatVector(n, junk) == Tensor(Den, [j \in 1..n |-> junk])

\* tensor.uniform_(lo, hi) on a matrix: every entry is overwritten by the next
\* draw, in row-major order.  lo and hi are numerators over Den.
uniform_(t, lo, hi, g) ==
    Tensor(Den, [i \in 1..Rows(t.val) |->
                    [j \in 1..Cols(t.val) |->
                        gen_value(gen_skip(g, (i - 1) * Cols(t.val) + j), lo, hi)]])

\* tensor.uniform_(lo, hi) on a vector.
uniform_vector(t, lo, hi, g) ==
    Tensor(Den, [j \in 1..Len(t.val) |-> gen_value(gen_skip(g, j), lo, hi)])

\* stdv = 1.0 / math.sqrt(size): the largest numerator n over Den with
\* n / Den <= 1 / sqrt(size).
stdv(size) ==
    CHOOSE n \in 0..Den : /\ n * n * size <= Den * Den
                          /\ (n + 1) * (n + 1) * size > Den * Den

\* Mutant of reset_parameters: the bias is never drawn and keeps whatever the
\* allocation left in it.
M_reset_parameters_no_bias(layer, g) ==
    LET s == stdv(Cols(layer.weight.val))
        nw == Rows(layer.weight.val) * Cols(layer.weight.val)
    IN  [layer |-> [weight |-> uniform_(layer.weight, -s, s, g),
                    bias |-> layer.bias],
         gen |-> gen_skip(g, nw)]

\* Mutant of reset_parameters: the bound is taken from the weight's first
\* size, in_features.
M_reset_parameters_bound_of_in_features(layer, g) ==
    LET s == stdv(Rows(layer.weight.val))
        nw == Rows(layer.weight.val) * Cols(layer.weight.val)
        nb == Len(layer.bias.val)
    IN  [layer |-> [weight |-> uniform_(layer.weight, -s, s, g),
                    bias |-> uniform_vector(layer.bias, -s, s, gen_skip(g, nw))],
         gen |-> gen_skip(g, nw + nb)]

\* GraphConvolution.reset_parameters
reset_parameters(layer, g) ==
    LET s == stdv(Cols(layer.weight.val))
        nw == Rows(layer.weight.val) * Cols(layer.weight.val)
        nb == Len(layer.bias.val)
    IN  [layer |-> [weight |-> uniform_(layer.weight, -s, s, g),
                    bias |-> uniform_vector(layer.bias, -s, s, gen_skip(g, nw))],
         gen |-> gen_skip(g, nw + nb)]

\* GraphConvolution.__init__(in_features, out_features)
GraphConvolution_init(in_features, out_features, junk, g) ==
    reset_parameters([weight |-> FloatTensor(in_features, out_features, junk),
                      bias |-> FloatVector(out_features, junk)], g)

\* GCN.__init__(input_features, hidden_dim, num_classes)
GCN_init(input_features, hidden_dim, num_classes, junk, g) ==
    LET l1 == GraphConvolution_init(input_features, hidden_dim, junk, g)
        l2 == GraphConvolution_init(hidden_dim, num_classes, junk, l1.gen)
    IN  [model |-> [gc1 |-> l1.layer, gc2 |-> l2.layer], gen |-> l2.gen]

----------------------------------------------------------------------------
(* Input families *)

Seeds == (0..MaxSeed) \cup {Seed}
Junk == {0, 1}

\* A bag-of-words row with at most one word present.
FeatureRows(f) ==
    {[j \in 1..f |-> IF j = w THEN 1 ELSE 0] : w \in 0..f}

FeatureMatrices == {Tensor(1, m) : m \in [1..NumNodes -> FeatureRows(InFeatures)]}

\* Adjacency with the self-loops the loader adds and any set of directed links.
AdjMatrices ==
    {Tensor(1, m) : m \in
        {a \in [1..NumNodes -> [1..NumNodes -> 0..1]] :
            \A i \in 1..NumNodes : a[i][i] = 1}}

LabelVectors == {Tensor(1, l) : l \in [1..NumNodes -> 0..(NumClasses - 1)]}
NoLabels == Tensor(1, [i \in 1..NumNodes |-> 0])

\* A notebook process right after the reproducibility cell ran with `seed`.
NewRun(seed, labels) ==
    [labels |-> labels,
     gen |-> manual_seed(seed),
     gcn |-> None,
     training |-> TRUE,
     pc |-> "start",
     y |-> None,
     lin |-> None,
     output |-> None,
     y_pred |-> None,
     acc |-> None,
     correct |-> None,
     acc_perm |-> None,
     opt |-> None,
     grad |-> None,
     loss |-> None,
     losses |-> <<>>,
     epoch |-> 0,
     grad_enabled |-> TRUE,
     y_pred_requires_grad |-> None,
     mlp |-> None,
     mlp_training |-> TRUE,
     mlp_y_pred |-> None,
     mlp_acc |-> None,
     mlp_correct |-> None,
     mlp_pc |-> "ready",
     mlp_output |-> None,
     mlp_opt |-> None,
     mlp_grad |-> None,
     mlp_loss |-> None,
     mlp_losses |-> <<>>,
     mlp_epoch |-> 0]

----------------------------------------------------------------------------
(* Operations *)

\* gcn = GCN(input_features, hidden_dim, num_classes)
Construct(r) ==
    /\ run[r].pc = "start"
    /\ \E junk \in Junk :
        LET c == GCN_init(InFeatures, HiddenDim, NumClasses, junk, run[r].gen)
        IN  run' = [run EXCEPT ![r] = [@ EXCEPT !.gcn = c.model,
                                                  !.gen = c.gen,
                                                  !.pc = "ready"]]
    /\ UNCHANGED <<features, adj, idx_train, idx_test, x2, ca, cb, conv>>

\* gcn.gc1(features, adj): one call of the layer
LayerCall(r) ==
    /\ run[r].pc = "ready"
    /\ run[r].y = None
    /\ run' = [run EXCEPT ![r].y =
                  GraphConvolution_forward(run[r].gcn.gc1, features, adj)]
    /\ UNCHANGED <<features, adj, idx_train, idx_test, x2, ca, cb, conv>>

\* gcn(features, adj): one call of the model
GCNCall(r) ==
    /\ run[r].pc = "ready"
    /\ run[r].output = None
    /\ run' = [run EXCEPT ![r].output = GCN_forward(run[r].gcn, features, adj)]
    /\ UNCHANGED <<features, adj, idx_train, idx_test, x2, ca, cb, conv>>

----------------------------------------------------------------------------
(* Forward passes on well-shaped inputs *)

InitFwd ==
    /\ features \in FeatureMatrices
    /\ adj \in AdjMatrices
    /\ idx_train = <<>>
    /\ idx_test = <<>>
    /\ \E seed \in Seeds :
        run = [r \in Runs |-> NewRun(seed, NoLabels)]
    /\ x2 = features
    /\ ca = 1
    /\ cb = 0
    /\ conv = None

NextFwd == Construct(Main) \/ LayerCall(Main) \/ GCNCall(Main)

SpecFwd == InitFwd /\ [][NextFwd]_vars

----------------------------------------------------------------------------
(* Reference arithmetic used to state the claims: entrywise sums over index *)
(* ranges, as fractions num / den.                                          *)

RECURSIVE Sigma(_, _)
Sigma(f, n) == IF n = 0 THEN 0 ELSE Sigma(f, n - 1) + f[n]

\* sum_k A[i,k] * (sum_f X[k,f] * W[f,j]) + b[j], as a numerator over EntryDen
EntryNum(layer, x, a, i, j) ==
    LET n == Rows(x.val)
        nf == Cols(x.val)
        xw == [k \in 1..n |->
                 Sigma([f \in 1..nf |-> x.val[k][f] * layer.weight.val[f][j]], nf)]
    IN  Sigma([k \in 1..n |-> a.val[i][k] * xw[k]], n) * layer.bias.den
        + layer.bias.val[j] * (a.den * x.den * layer.weight.den)

EntryDen(layer, x, a) == a.den * x.den * layer.weight.den * layer.bias.den

\* t is the rows x cols matrix whose entry (i, j) is num(i, j) / den
IsMatrixOf(t, rows, cols, num(_, _), den) ==
    /\ ~IsErr(t)
    /\ t # None
    /\ Len(t.val) = rows
    /\ \A i \in 1..rows :
        /\ Len(t.val[i]) = cols
        /\ \A j \in 1..cols : t.val[i][j] * den = t.den * num(i, j)

IsIdentity(a) ==
    /\ Rows(a.val) = Cols(a.val)
    /\ \A i, j \in 1..Rows(a.val) : a.val[i][j] = a.den * (IF i = j THEN 1 ELSE 0)

\* C1: GraphConvolution.forward(X, A) is the N x out_features matrix
\* A.(X.W) with the bias added to every row: entry (i, j) equals
\* sum_k A[i,k] * (sum_f X[k,f] * W[f,j]) + b[j].
C1_ForwardIsAXWPlusB ==
    LET y == run[Main].y
        layer == run[Main].gcn.gc1
    IN  y # None =>
            IsMatrixOf(y, Rows(features.val), Cols(layer.weight.val),
                       LAMBDA i, j : EntryNum(layer, features, adj, i, j),
                       EntryDen(layer, features, adj))

\* C1 witness: the layer ran on a graph with a link between two nodes and
\* returned a row that mixes a neighbour's features with a non-zero bias.
C1_Witness ==
    LET y == run[Main].y
        layer == run[Main].gcn.gc1
    IN  /\ y # None
        /\ ~IsErr(y)
        /\ \E i, k \in 1..NumNodes : i # k /\ adj.val[i][k] # 0
        /\ \E j \in 1..HiddenDim : layer.bias.val[j] # 0
        /\ \E i \in 1..NumNodes, j \in 1..HiddenDim :
              y.val[i][j] # 0 /\ y.val[i][j] * layer.bias.den # layer.bias.val[j] * y.den

\* relu(gc1.forward(X, A)) as a tensor, entry by entry
HiddenRef(model, x, a) ==
    Tensor(EntryDen(model.gc1, x, a),
           [k \in 1..Rows(x.val) |->
              [h \in 1..Cols(model.gc1.weight.val) |->
                 LET e == EntryNum(model.gc1, x, a, k, h)
                 IN  IF e > 0 THEN e ELSE 0]])

\* C2: GCN.forward(X, A) equals layer2.forward(relu(layer1.forward(X, A)), A)
\* with the same A in both layers; the N x num_classes logits are returned
\* as they are (no softmax, no normalisation).
C2_GCNIsTwoLayers ==
    LET out == run[Main].output
        model == run[Main].gcn
        h == HiddenRef(model, features, adj)
    IN  out # None =>
            IsMatrixOf(out, Rows(features.val), Cols(model.gc2.weight.val),
                       LAMBDA i, j : EntryNum(model.gc2, h, adj, i, j),
                       EntryDen(model.gc2, h, adj))

\* C2 witness: the model ran, the rectifier clipped a negative entry of the
\* first layer, and a returned logit is negative (so not a probability).
C2_Witness ==
    LET out == run[Main].output
        model == run[Main].gcn
    IN  /\ out # None
        /\ ~IsErr(out)
        /\ \E k \in 1..NumNodes, h \in 1..HiddenDim :
              EntryNum(model.gc1, features, adj, k, h) < 0
        /\ \E i \in 1..NumNodes, j \in 1..NumClasses : out.val[i][j] < 0
        /\ \E i, k \in 1..NumNodes : i # k /\ adj.val[i][k] # 0

\* relu(X[i].W1 + b1).W2 + b2 for node i alone, entry j, as num / den
PerceptronHidden(model, x, i) ==
    [h \in 1..Cols(model.gc1.weight.val) |->
        LET nf == Cols(x.val)
            e == Sigma([f \in 1..nf |-> x.val[i][f] * model.gc1.weight.val[f][h]], nf)
                     * model.gc1.bias.den
                 + model.gc1.bias.val[h] * (x.den * model.gc1.weight.den)
        IN  IF e > 0 THEN e ELSE 0]

PerceptronHiddenDen(model, x) ==
    x.den * model.gc1.weight.den * model.gc1.bias.den

PerceptronNum(model, x, i, j) ==
    LET nh == Cols(model.gc1.weight.val)
        hid == PerceptronHidden(model, x, i)
    IN  Sigma([h \in 1..nh |-> hid[h] * model.gc2.weight.val[h][j]], nh)
            * model.gc2.bias.den
        + model.gc2.bias.val[j] * (PerceptronHiddenDen(model, x) * model.gc2.weight.den)

PerceptronDen(model, x) ==
    PerceptronHiddenDen(model, x) * model.gc2.weight.den * model.gc2.bias.den

\* C4: with self-loops only (A the identity) the GCN's output row of node i
\* is the two-layer perceptron relu(X[i].W1 + b1).W2 + b2 of node i's
\* features alone.
C4_IdentityAdjIsRowwiseMLP ==
    LET out == run[Main].output
        model == run[Main].gcn
    IN  (out # None /\ IsIdentity(adj)) =>
            IsMatrixOf(out, Rows(features.val), Cols(model.gc2.weight.val),
                       LAMBDA i, j : PerceptronNum(model, features, i, j),
                       PerceptronDen(model, features))

\* C4 witness: the model ran on the identity adjacency and two nodes with
\* different features got different logits.
C4_Witness ==
    LET out == run[Main].output
    IN  /\ out # None
        /\ ~IsErr(out)
        /\ IsIdentity(adj)
        /\ \E i, k \in 1..NumNodes : out.val[i] # out.val[k]

----------------------------------------------------------------------------
(* Forward passes on inputs whose shapes may disagree *)

DropLastRow(t) == Tensor(t.den, SubSeq(t.val, 1, Len(t.val) - 1))
DropLastColumn(t) ==
    Tensor(t.den, [i \in 1..Rows(t.val) |-> SubSeq(t.val[i], 1, Cols(t.val) - 1)])

\* A matrix, and the same matrix with a row, a column, or both missing.
Misshapen(t) == {t, DropLastRow(t), DropLastColumn(t), DropLastColumn(DropLastRow(t))}

InitShape ==
    /\ \E t \in FeatureMatrices : features \in Misshapen(t)
    /\ \E t \in AdjMatrices : adj \in Misshapen(t)
    /\ idx_train = <<>>
    /\ idx_test = <<>>
    /\ run = [r \in Runs |-> NewRun(Seed, NoLabels)]
    /\ x2 = features
    /\ ca = 1
    /\ cb = 0
    /\ conv = None

SpecShape == InitShape /\ [][NextFwd]_vars

\* The shapes the layer's contract asks for: X is N x in_features and A is
\* N x N for the same N.
ShapesAgree(layer, x, a) ==
    /\ Cols(x.val) = Rows(layer.weight.val)
    /\ Rows(a.val) = Rows(x.val)
    /\ Cols(a.val) = Rows(x.val)

\* C8: whenever the shapes of X, A and the layer's declared dimensions do
\* not agree, GraphConvolution.forward fails with an error and never returns
\* a result.
C8_ShapeMismatchFails ==
    LET y == run[Main].y
    IN  (y # None /\ ~ShapesAgree(run[Main].gcn.gc1, features, adj)) => IsErr(y)

----------------------------------------------------------------------------
(* The linearity experiment of the layer *)

Scalars == -1..MaxScalar

\* a * t1 + b * t2, entrywise
LinearCombination(a, t1, b, t2) ==
    Tensor(t1.den * t2.den,
           [i \in 1..Rows(t1.val) |->
              [j \in 1..Cols(t1.val) |->
                 a * t1.val[i][j] * t2.den + b * t2.val[i][j] * t1.den]])

\* Adjacency with self-loops and undirected links.
SymmetricAdjMatrices ==
    {a \in AdjMatrices : \A i, j \in 1..NumNodes : a.val[i][j] = a.val[j][i]}

\* Feature matrices whose nodes all hold the same bag of words.
UniformFeatureMatrices ==
    {Tensor(1, [i \in 1..NumNodes |-> row]) : row \in FeatureRows(InFeatures)}

\* layer.bias.data.zero_(): the test's way to make the layer exactly linear
ZeroBias(r) ==
    /\ run[r].pc = "ready"
    /\ run[r].lin = None
    /\ \E j \in 1..HiddenDim : run[r].gcn.gc1.bias.val[j] # 0
    /\ run' = [run EXCEPT ![r].gcn.gc1.bias.val = [j \in 1..HiddenDim |-> 0]]
    /\ UNCHANGED <<features, adj, idx_train, idx_test, x2, ca, cb, conv>>

\* The layer applied to features, to x2 and to ca * features + cb * x2.
LinearityCall(r) ==
    /\ run[r].pc = "ready"
    /\ run[r].lin = None
    /\ LET layer == run[r].gcn.gc1
       IN  run' = [run EXCEPT ![r].lin =
                [y1 |-> GraphConvolution_forward(layer, features, adj),
                 y2 |-> GraphConvolution_forward(layer, x2, adj),
                 y12 |-> GraphConvolution_forward(
                            layer, LinearCombination(ca, features, cb, x2), adj)]]
    /\ UNCHANGED <<features, adj, idx_train, idx_test, x2, ca, cb, conv>>

InitLin ==
    /\ features \in FeatureMatrices
    /\ adj \in SymmetricAdjMatrices
    /\ idx_train = <<>>
    /\ idx_test = <<>>
    /\ run = [r \in Runs |-> NewRun(Seed, NoLabels)]
    /\ x2 \in UniformFeatureMatrices
    /\ ca \in Scalars
    /\ cb \in Scalars
    /\ conv = None

NextLin == Construct(Main) \/ ZeroBias(Main) \/ LinearityCall(Main)

SpecLin == InitLin /\ [][NextLin]_vars

\* C3: with A and the parameters fixed, forward(a.X1 + b.X2, A) equals
\* a.forward(X1, A) + b.forward(X2, A) - (a + b - 1).bias; with a zero bias
\* the forward pass is exactly linear in X.
C3_ForwardIsAffineInX ==
    LET lin == run[Main].lin
        bias == run[Main].gcn.gc1.bias
        d1 == lin.y1.den
        d2 == lin.y2.den
    IN  lin # None =>
          /\ ~IsErr(lin.y1)
          /\ ~IsErr(lin.y2)
          /\ IsMatrixOf(lin.y12, NumNodes, HiddenDim,
                LAMBDA i, j : ca * lin.y1.val[i][j] * d2 * bias.den
                              + cb * lin.y2.val[i][j] * d1 * bias.den
                              - (ca + cb - 1) * bias.val[j] * d1 * d2,
                d1 * d2 * bias.den)
          /\ (\A j \in 1..HiddenDim : bias.val[j] = 0) =>
                IsMatrixOf(lin.y12, NumNodes, HiddenDim,
                    LAMBDA i, j : ca * lin.y1.val[i][j] * d2 + cb * lin.y2.val[i][j] * d1,
                    d1 * d2)

\* C3 witness: the three forward passes ran with a + b # 1, a non-zero bias,
\* two different inputs and a link in the graph.
C3_Witness ==
    LET lin == run[Main].lin
    IN  /\ lin # None
        /\ ca + cb # 1
        /\ ca # 0
        /\ cb # 0
        /\ x2 # features
        /\ \E j \in 1..HiddenDim : run[Main].gcn.gc1.bias.val[j] # 0
        /\ \E i, k \in 1..NumNodes : i # k /\ adj.val[i][k] # 0
        /\ lin.y1 # lin.y2

\* C3 witness of the zero-bias case: the bias was zeroed and the pass of the
\* combined input is the combination of the two passes.
C3_WitnessZeroBias ==
    LET lin == run[Main].lin
    IN  /\ lin # None
        /\ \A j \in 1..HiddenDim : run[Main].gcn.gc1.bias.val[j] = 0
        /\ ca + cb # 1
        /\ lin.y1 # lin.y2
        /\ \E i \in 1..NumNodes, j \in 1..HiddenDim : lin.y12.val[i][j] # 0

----------------------------------------------------------------------------
(* Accuracy evaluation *)

\* _ = gcn_accuracy(gcn)
\* Whether the result of a forward pass carries an autograd graph: the
\* parameters are nn.Parameter (requires_grad = True), so it does whenever the
\* process's grad mode is on. The notebook never enters torch.no_grad().
requires_grad(process) == process.grad_enabled

GCNAccuracy(r) ==
    /\ run[r].pc \in {"ready", "done"}
    /\ LET res == gcn_accuracy(run[r].gcn, features, adj, run[r].labels, idx_test)
       IN  run' = [run EXCEPT ![r] = [@ EXCEPT !.training = res.training,
                                                 !.y_pred = res.y_pred,
                                                 !.y_pred_requires_grad = requires_grad(run[r]),
                                                 !.acc = res.acc]]
    /\ UNCHANGED <<features, adj, idx_train, idx_test, x2, ca, cb, conv>>

\* correct = get_predictions(gcn(features, adj), labels)
Predictions(r) ==
    /\ run[r].pc \in {"ready", "done"}
    /\ run[r].acc # None
    /\ run[r].correct = None
    /\ LET out == GCN_forward(run[r].gcn, features, adj)
       IN  run' = [run EXCEPT ![r].correct =
                      IF IsErr(out) THEN out ELSE get_predictions(out, run[r].labels)]
    /\ UNCHANGED <<features, adj, idx_train, idx_test, x2, ca, cb, conv>>

\* The relabellings of the nodes: q[j] is the old node placed at position j.
Relabellings ==
    {q \in [1..NumNodes -> 1..NumNodes] :
        \A i, j \in 1..NumNodes : q[i] = q[j] => i = j}

NewPosition(q, old) == CHOOSE j \in 1..NumNodes : q[j] = old

RelabelRows(t, q) == Tensor(t.den, [j \in 1..NumNodes |-> t.val[q[j]]])
RelabelAdj(a, q) ==
    Tensor(a.den, [j \in 1..NumNodes |-> [l \in 1..NumNodes |-> a.val[q[j]][q[l]]]])
RelabelIdx(idx, q) == [k \in 1..Len(idx) |-> NewPosition(q, idx[k] + 1) - 1]

IsNodeIndexSet(idx) == \A k \in 1..Len(idx) : idx[k] \in 0..(NumNodes - 1)

\* gcn_accuracy(gcn) again, after the same graph was loaded with its nodes
\* in another order.
RelabelledAccuracy(r) ==
    /\ run[r].pc \in {"ready", "done"}
    /\ run[r].correct # None
    /\ run[r].acc_perm = None
    /\ IsNodeIndexSet(idx_test)
    /\ \E q \in Relabellings :
        /\ \E j \in 1..NumNodes : q[j] # j
        /\ run' = [run EXCEPT ![r].acc_perm =
                gcn_accuracy(run[r].gcn, RelabelRows(features, q), RelabelAdj(adj, q),
                             RelabelRows(run[r].labels, q), RelabelIdx(idx_test, q)).acc]
    /\ UNCHANGED <<features, adj, idx_train, idx_test, x2, ca, cb, conv>>

\* Feature matrices in which every node holds exactly one word.
WordMatrices == {t \in FeatureMatrices : \A i \in 1..NumNodes : SeqSum(t.val[i]) = 1}

\* range(lo, hi) as an index tensor
Range(lo, hi) == [k \in 1..(hi - lo) |-> lo + k - 1]

\* The test splits: the nodes from some position to the last one.
TestSplits == {Range(lo, NumNodes) : lo \in 0..(NumNodes - 1)}

InitAcc ==
    /\ features \in WordMatrices
    /\ adj \in SymmetricAdjMatrices
    /\ idx_train = <<>>
    /\ idx_test \in TestSplits
    /\ \E seed \in {0, Seed}, labels \in LabelVectors :
        run = [r \in Runs |-> NewRun(seed, labels)]
    /\ x2 = features
    /\ ca = 1
    /\ cb = 0
    /\ conv = None

NextAcc ==
    \/ Construct(Main)
    \/ GCNAccuracy(Main)
    \/ Predictions(Main)
    \/ RelabelledAccuracy(Main)

SpecAcc == InitAcc /\ [][NextAcc]_vars

\* Column c (0-based) holds the row's maximum, and no earlier column does.
IsArgmax(row, c) ==
    /\ c + 1 \in 1..Len(row)
    /\ \A j \in 1..Len(row) : row[j] <= row[c + 1]
    /\ \A j \in 1..c : row[j] < row[c + 1]

\* C5: on a non-empty index set, accuracy is the number of selected rows
\* whose argmax column is the row's label, divided by the number of selected
\* rows; get_predictions gives one 0/1 entry per row; the accuracy is in [0, 1].
C5_AccuracyIsFractionCorrect ==
    LET acc == run[Main].acc
        y_pred == run[Main].y_pred
        labels == run[Main].labels
        correct == run[Main].correct
        hits == {k \in 1..Len(idx_test) :
                    IsArgmax(y_pred.val[idx_test[k] + 1], labels.val[idx_test[k] + 1])}
    IN  /\ (acc # None /\ idx_test # <<>> /\ IsNodeIndexSet(idx_test)) =>
            /\ ~IsErr(acc)
            /\ acc # NaN
            /\ acc.den = Len(idx_test)
            /\ acc.num = Cardinality(hits)
            /\ 0 <= acc.num
            /\ acc.num <= acc.den
        /\ correct # None =>
            /\ ~IsErr(correct)
            /\ Len(correct.val) = NumNodes
            /\ \A i \in 1..NumNodes :
                /\ correct.val[i] \in {0, 1}
                /\ correct.val[i] = 1 <=> IsArgmax(y_pred.val[i], labels.val[i])

\* C5 witness: an evaluation on several nodes got some right and some wrong.
C5_Witness ==
    LET acc == run[Main].acc
    IN  /\ acc # None
        /\ run[Main].correct # None
        /\ Len(idx_test) > 1
        /\ ~IsErr(acc)
        /\ 0 < acc.num
        /\ acc.num < acc.den
        /\ \E i \in 1..NumNodes : run[Main].y_pred.val[i][1] < run[Main].y_pred.val[i][2]

\* C6: relabelling the nodes consistently in the features, the adjacency,
\* the labels and the index set leaves the GCN accuracy unchanged.
C6_AccuracyInvariantUnderRelabelling ==
    run[Main].acc_perm # None => run[Main].acc_perm = run[Main].acc

\* C6 witness: the accuracy of a relabelled graph was computed on a proper
\* subset of the nodes of a graph with a link, nodes with different features
\* and labels, and some but not all predictions right.
C6_Witness ==
    /\ run[Main].acc_perm # None
    /\ ~IsErr(run[Main].acc_perm)
    /\ Len(idx_test) < NumNodes
    /\ \E i, k \in 1..NumNodes : i # k /\ adj.val[i][k] # 0
    /\ \E i, k \in 1..NumNodes : features.val[i] # features.val[k]
    /\ \E i, k \in 1..NumNodes : run[Main].labels.val[i] # run[Main].labels.val[k]
    /\ \E i, k \in 1..NumNodes : run[Main].correct.val[i] # run[Main].correct.val[k]

----------------------------------------------------------------------------
(* The GCN training loop *)

Data == <<features, adj, idx_train, idx_test, x2, ca, cb, conv>>

\* opt = optim.Adam(gcn.parameters()); losses = []; gcn.train()
TrainSetup(r) ==
    /\ run[r].pc = "ready"
    /\ run' = [run EXCEPT ![r] = [@ EXCEPT !.opt = Adam(run[r].gcn),
                                             !.losses = <<>>,
                                             !.training = TRUE,
                                             !.epoch = 0,
                                             !.pc = "zero_grad"]]
    /\ UNCHANGED Data

\* opt.zero_grad()
ZeroGrad(r) ==
    /\ run[r].pc = "zero_grad"
    /\ run' = [run EXCEPT ![r] = [@ EXCEPT !.grad = zero_grad(run[r].grad),
                                             !.pc = "forward"]]
    /\ UNCHANGED Data

\* output = gcn(features, adj)
Forward(r) ==
    /\ run[r].pc = "forward"
    /\ LET out == GCN_forward(run[r].gcn, features, adj)
       IN  run' = [run EXCEPT ![r] = [@ EXCEPT !.output = out,
                        !.pc = IF IsErr(out) THEN "failed" ELSE "loss"]]
    /\ UNCHANGED Data

\* loss = F.cross_entropy(output[idx_train], labels[idx_train])
Loss(r) ==
    /\ run[r].pc = "loss"
    /\ LET l == train_loss(run[r].output, run[r].labels, idx_train)
       IN  run' = [run EXCEPT ![r] = [@ EXCEPT !.loss = l,
                        !.pc = IF IsErr(l) THEN "failed" ELSE "backward"]]
    /\ UNCHANGED Data

\* Mutant of loss.backward(): the gradients are applied to the parameters at
\* once, instead of being stored for the optimizer.
M_Backward_updates_parameters(r) ==
    /\ run[r].pc = "backward"
    /\ LET g == backward(run[r].grad,
                     gradients(run[r].gcn, features, adj, run[r].labels, idx_train))
       IN  run' = [run EXCEPT ![r] = [@ EXCEPT
                    !.grad = g,
                    !.gcn = adam_step(run[r].gcn, run[r].opt, g).model,
                    !.pc = "step"]]
    /\ UNCHANGED Data

\* loss.backward()
Backward(r) ==
    /\ run[r].pc = "backward"
    /\ run' = [run EXCEPT ![r] = [@ EXCEPT
                    !.grad = backward(run[r].grad,
                                 gradients(run[r].gcn, features, adj, run[r].labels, idx_train)),
                    !.pc = "step"]]
    /\ UNCHANGED Data

\* Mutant of the iteration: the loss is computed again after the optimizer
\* step, from the updated parameters, and that value is recorded.
M_Step_recomputes_loss(r) ==
    /\ run[r].pc = "step"
    /\ LET res == adam_step(run[r].gcn, run[r].opt, run[r].grad)
       IN  run' = [run EXCEPT ![r] = [@ EXCEPT
                    !.gcn = res.model,
                    !.opt = res.opt,
                    !.loss = train_loss(GCN_forward(res.model, features, adj),
                                        run[r].labels, idx_train),
                    !.pc = "append"]]
    /\ UNCHANGED Data

\* opt.step()
Step(r) ==
    /\ run[r].pc = "step"
    /\ LET res == adam_step(run[r].gcn, run[r].opt, run[r].grad)
       IN  run' = [run EXCEPT ![r] = [@ EXCEPT !.gcn = res.model,
                                                 !.opt = res.opt,
                                                 !.pc = "append"]]
    /\ UNCHANGED Data

\* Mutant of the loop header: the loop is left as soon as the loss is zero.
M_AppendLoss_stops_on_zero_loss(r) ==
    /\ run[r].pc = "append"
    /\ run' = [run EXCEPT ![r] = [@ EXCEPT
                    !.losses = Append(run[r].losses, run[r].loss),
                    !.epoch = run[r].epoch + 1,
                    !.pc = IF run[r].epoch + 1 < MaxEpochs /\ run[r].loss.num # 0
                           THEN "zero_grad" ELSE "done"]]
    /\ UNCHANGED Data

\* losses.append(loss.item()), and the loop's next epoch
AppendLoss(r) ==
    /\ run[r].pc = "append"
    /\ run' = [run EXCEPT ![r] = [@ EXCEPT
                    !.losses = Append(run[r].losses, run[r].loss),
                    !.epoch = run[r].epoch + 1,
                    !.pc = IF run[r].epoch + 1 < MaxEpochs THEN "zero_grad" ELSE "done"]]
    /\ UNCHANGED Data

TrainingLoop(r) ==
    \/ TrainSetup(r)
    \/ ZeroGrad(r)
    \/ Forward(r)
    \/ Loss(r)
    \/ Backward(r)
    \/ Step(r)
    \/ AppendLoss(r)

\* The small graphs the loop is run on: node i holds word i (modulo the
\* vocabulary), the nodes form a path or are isolated, and the classes follow
\* the words or are shifted by one.
ToyFeatures ==
    Tensor(1, [i \in 1..NumNodes |-> [j \in 1..InFeatures |->
                  IF j = ((i - 1) % InFeatures) + 1 THEN 1 ELSE 0]])
ToyAdjMatrices ==
    {Tensor(1, [i \in 1..NumNodes |-> [j \in 1..NumNodes |->
                  IF i = j \/ (linked /\ (i = j + 1 \/ j = i + 1)) THEN 1 ELSE 0]])
        : linked \in BOOLEAN}
ToyLabels ==
    {Tensor(1, [i \in 1..NumNodes |-> (i - 1 + shift) % NumClasses]) : shift \in 0..1}

\* Index sets as load_data builds them, range(lo, hi), here without any
\* check that they stay inside the graph or are non-empty.
IndexSets == {Range(lo, hi) : lo \in -1..NumNodes, hi \in -1..(NumNodes + 1)}

InitTrain ==
    /\ features = ToyFeatures
    /\ adj \in ToyAdjMatrices
    /\ idx_train \in IndexSets
    /\ idx_test \in IndexSets
    /\ \E seed \in Seeds, labels \in ToyLabels :
        run = [r \in Runs |-> NewRun(seed, labels)]
    /\ x2 = features
    /\ ca = 1
    /\ cb = 0
    /\ conv = None

NextTrain == Construct(Main) \/ GCNAccuracy(Main) \/ TrainingLoop(Main)

SpecTrain == InitTrain /\ [][NextTrain]_vars

----------------------------------------------------------------------------
(* Error handling of the index sets *)

\* C7: whenever the accuracy has been evaluated on an empty test index set,
\* its outcome is an error, never NaN or another number.
C7_EmptyIndexSetFails ==
    (run[Main].acc # None /\ idx_test = <<>>) => IsErr(run[Main].acc)

HasInvalidPosition(idx) == \E k \in 1..Len(idx) : idx[k] \notin 0..(NumNodes - 1)

\* C9: whenever an index set holds a value outside 0..N-1, a negative one
\* included, the accuracy evaluated on it and the loss computed on it are
\* errors.
C9_InvalidIndexFails ==
    /\ (run[Main].acc # None /\ HasInvalidPosition(idx_test)) => IsErr(run[Main].acc)
    /\ (run[Main].loss # None /\ HasInvalidPosition(idx_train)) => IsErr(run[Main].loss)

----------------------------------------------------------------------------
(* Two runs of the notebook from the same seed and data *)

\* The training splits: the nodes from the first one to some position.
TrainSplits == {Range(0, hi) : hi \in 1..NumNodes}

InitDet ==
    /\ features = ToyFeatures
    /\ adj \in ToyAdjMatrices
    /\ idx_train \in TrainSplits
    /\ idx_test = Range(0, NumNodes)
    /\ \E seed \in Seeds, labels \in ToyLabels :
        run = [r \in Runs |-> NewRun(seed, labels)]
    /\ x2 = features
    /\ ca = 1
    /\ cb = 0
    /\ conv = None

NextDet == \E r \in Runs : Construct(r) \/ TrainingLoop(r)

SpecDet == InitDet /\ [][NextDet]_vars

\* The number of optimizer steps a run has taken.
StepsTaken(r) == IF run[r].opt = None THEN 0 ELSE run[r].opt.step

\* C10: two runs from the same seed, features, adjacency, labels and train
\* index set hold the same parameters whenever they have taken the same
\* number of optimizer steps, and their recorded losses agree epoch by epoch.
C10_RunsAreDeterministic ==
    \A r1, r2 \in Runs :
        /\ (run[r1].gcn # None /\ run[r2].gcn # None /\ StepsTaken(r1) = StepsTaken(r2))
              => run[r1].gcn = run[r2].gcn
        /\ \A k \in 1..Len(run[r1].losses) :
              k <= Len(run[r2].losses) => run[r1].losses[k] = run[r2].losses[k]

\* Both runs have finished all epochs, and training moved the loss.
C10_Witness ==
    /\ \A r \in Runs : run[r].pc = "done" /\ Len(run[r].losses) = MaxEpochs
    /\ run[1].losses[1] # run[1].losses[MaxEpochs]

----------------------------------------------------------------------------
(* Mode of the evaluation's forward pass *)

\* C12: whenever gcn_accuracy has run, the model is in evaluation mode and the
\* logits of its forward pass were computed without gradient tracking.
C12_EvaluationTracksNoGradient ==
    run[Main].acc # None =>
        /\ run[Main].training = FALSE
        /\ run[Main].y_pred_requires_grad = FALSE

----------------------------------------------------------------------------
(* Order of the steps of one iteration *)

\* The statement a run executes after each statement of the loop.
LoopOrder ==
    {<<"zero_grad", "forward">>, <<"forward", "loss">>, <<"loss", "backward">>,
     <<"backward", "step">>, <<"step", "append">>, <<"append", "zero_grad">>,
     <<"append", "done">>, <<"forward", "failed">>, <<"loss", "failed">>}

\* C13: every iteration runs forward pass, loss, gradient, optimizer step and
\* recording once each and in this order: the counts of optimizer steps and
\* recorded losses follow the iteration count, the forward pass covers all N
\* nodes, the optimizer step leaves the loss computed before it in place, and
\* that loss is the one recorded.
C13_IterationStepsInOrder ==
    /\ [](run[Main].opt # None =>
            /\ Len(run[Main].losses) = run[Main].epoch
            /\ StepsTaken(Main) =
                   IF run[Main].pc = "append" THEN run[Main].epoch + 1 ELSE run[Main].epoch)
    /\ [][/\ (run[Main].opt # None /\ run'[Main].pc # run[Main].pc)
                => <<run[Main].pc, run'[Main].pc>> \in LoopOrder
          /\ (run[Main].pc = "forward" /\ run'[Main].pc = "loss")
                => /\ run'[Main].output = GCN_forward(run[Main].gcn, features, adj)
                   /\ Rows(run'[Main].output.val) = Rows(features.val)
          /\ (run[Main].pc = "loss" /\ run'[Main].pc # run[Main].pc)
                => run'[Main].loss = train_loss(run[Main].output, run[Main].labels, idx_train)
          /\ StepsTaken(Main)' # StepsTaken(Main)
                => /\ run[Main].pc = "step"
                   /\ StepsTaken(Main)' = StepsTaken(Main) + 1
                   /\ run[Main].output = GCN_forward(run[Main].gcn, features, adj)
                   /\ run'[Main].loss = run[Main].loss
          /\ run'[Main].losses # run[Main].losses
                => /\ run[Main].pc = "append"
                   /\ run'[Main].losses = Append(run[Main].losses, run[Main].loss)
          /\ run[Main].pc \in {"backward", "append"}
                => run'[Main].loss = run[Main].loss
       ]_vars

\* All iterations are done, and the optimizer steps changed the loss.
C13_Witness ==
    /\ run[Main].pc = "done"
    /\ StepsTaken(Main) = MaxEpochs
    /\ Len(run[Main].losses) = MaxEpochs
    /\ run[Main].losses[MaxEpochs] # run[Main].losses[1]
    /\ run[Main].loss = run[Main].losses[MaxEpochs]

----------------------------------------------------------------------------
(* Two runs whose labels differ outside the train index set *)

AgreeOn(idx, l1, l2) ==
    \A k \in 1..Len(idx) : l1.val[idx[k] + 1] = l2.val[idx[k] + 1]

InitLab ==
    /\ features = ToyFeatures
    /\ adj \in ToyAdjMatrices
    /\ idx_train \in TrainSplits
    /\ idx_test = Range(0, NumNodes)
    /\ \E seed \in Seeds, l1 \in ToyLabels, l2 \in LabelVectors :
        /\ AgreeOn(idx_train, l1, l2)
        /\ run = [r \in Runs |-> NewRun(seed, IF r = Main THEN l1 ELSE l2)]
    /\ x2 = features
    /\ ca = 1
    /\ cb = 0
    /\ conv = None

SpecLab == InitLab /\ [][NextDet]_vars

\* C14: two runs that differ at most in the labels of nodes outside idx_train
\* record the same losses epoch by epoch, accumulate the same gradients and
\* hold the same parameters whenever they have taken the same number of
\* optimizer steps.
C14_TrainingReadsTrainLabelsOnly ==
    \A r1, r2 \in Runs :
        /\ \A k \in 1..Len(run[r1].losses) :
              k <= Len(run[r2].losses) => run[r1].losses[k] = run[r2].losses[k]
        /\ (run[r1].gcn # None /\ run[r2].gcn # None /\ StepsTaken(r1) = StepsTaken(r2))
              => run[r1].gcn = run[r2].gcn
        /\ (run[r1].pc = "step" /\ run[r2].pc = "step" /\ run[r1].epoch = run[r2].epoch)
              => run[r1].grad = run[r2].grad

\* Both runs have finished, their labels differ on a node outside idx_train,
\* and that node's logits were part of every forward pass.
C14_Witness ==
    /\ \A r \in Runs : run[r].pc = "done" /\ Len(run[r].losses) = MaxEpochs
    /\ run[1].labels # run[2].labels
    /\ Rows(run[1].output.val) = NumNodes
    /\ Len(idx_train) < NumNodes

----------------------------------------------------------------------------
(* What each statement leaves unchanged *)

\* C15: no step of construction, evaluation or training changes the features,
\* the adjacency matrix, the labels or the index sets, and the parameters of a
\* constructed model change in opt.step() only.
C15_DataReadOnlyParametersStepOnly ==
    [][/\ features' = features
       /\ adj' = adj
       /\ idx_train' = idx_train
       /\ idx_test' = idx_test
       /\ run'[Main].labels = run[Main].labels
       /\ (run[Main].gcn # None /\ run'[Main].gcn # run[Main].gcn)
             => (run[Main].pc = "step" /\ run'[Main].pc = "append")
      ]_vars

\* The model was trained and then evaluated: the evaluation's logits come from
\* the final parameters, after the last optimizer step changed them.
C15_Witness ==
    /\ run[Main].pc = "done"
    /\ StepsTaken(Main) = MaxEpochs
    /\ run[Main].acc # None
    /\ run[Main].y_pred = GCN_forward(run[Main].gcn, features, adj)
    /\ run[Main].y_pred # run[Main].output

----------------------------------------------------------------------------
(* A layer constructed on its own *)

\* GraphConvolution(in_features, out_features)
LayerConstruct ==
    /\ conv.weight = None
    /\ run[Main].pc = "start"
    /\ \E junk \in Junk :
        LET c == GraphConvolution_init(conv.in_features, conv.out_features,
                                       junk, run[Main].gen)
        IN  /\ conv' = [conv EXCEPT !.weight = c.layer.weight, !.bias = c.layer.bias]
            /\ run' = [run EXCEPT ![Main] = [@ EXCEPT !.gen = c.gen]]
    /\ UNCHANGED <<features, adj, idx_train, idx_test, x2, ca, cb>>

InitLayer ==
    /\ features = ToyFeatures
    /\ adj \in ToyAdjMatrices
    /\ idx_train = Range(0, NumNodes)
    /\ idx_test = Range(0, NumNodes)
    /\ \E seed \in 0..Seed : run = [r \in Runs |-> NewRun(seed, NoLabels)]
    /\ x2 = features
    /\ ca = 1
    /\ cb = 0
    /\ \E i \in 1..MaxFeatures, o \in 1..MaxFeatures :
        conv = [in_features |-> i, out_features |-> o, weight |-> None, bias |-> None]

NextLayer == LayerConstruct

SpecLayer == InitLayer /\ [][NextLayer]_vars

\* C16: every entry v of the weight and of the bias of a freshly constructed
\* layer satisfies v * v * out_features <= 1, and the weight is
\* in_features x out_features, the bias out_features long.
C16_InitialParametersWithinBound ==
    conv.weight # None =>
        /\ Rows(conv.weight.val) = conv.in_features
        /\ \A i \in 1..conv.in_features :
              /\ Len(conv.weight.val[i]) = conv.out_features
              /\ \A j \in 1..conv.out_features :
                    conv.weight.val[i][j] * conv.weight.val[i][j] * conv.out_features
                        <= conv.weight.den * conv.weight.den
        /\ Len(conv.bias.val) = conv.out_features
        /\ \A j \in 1..conv.out_features :
              conv.bias.val[j] * conv.bias.val[j] * conv.out_features
                  <= conv.bias.den * conv.bias.den

\* A layer with more outputs than inputs whose weight and bias both hold a
\* non-zero entry.
C16_Witness ==
    /\ conv.weight # None
    /\ conv.out_features > conv.in_features
    /\ \E i \in 1..conv.in_features, j \in 1..conv.out_features :
          conv.weight.val[i][j] # 0
    /\ \E j \in 1..conv.out_features : conv.bias.val[j] # 0

----------------------------------------------------------------------------
(* The MLP baseline *)

\* nn.Linear(in_features, out_features): weight is out_features x in_features,
\* both parameters are drawn from [-1/sqrt(in_features), 1/sqrt(in_features)].
Linear_init(in_features, out_features, g) ==
    LET s == stdv(in_features)
        nw == in_features * out_features
    IN  [layer |-> [weight |-> uniform_(FloatTensor(out_features, in_features, 0), -s, s, g),
                    bias |-> uniform_vector(FloatVector(out_features, 0), -s, s,
                                            gen_skip(g, nw))],
         gen |-> gen_skip(g, nw + out_features)]

\* Mutant of nn.Linear.forward: the first row of the batch is added to every
\* row before the bias.
M_Linear_forward_adds_first_row(lin, x) ==
    LET xw == mm(x, Tensor(lin.weight.den,
                           Transpose(lin.weight.val, Cols(lin.weight.val))))
    IN  IF IsErr(xw) THEN xw
        ELSE add_bias(Tensor(xw.den, [i \in 1..Rows(xw.val) |->
                                 [j \in 1..Cols(xw.val) |-> xw.val[i][j] + xw.val[1][j]]]),
                      lin.bias)

\* nn.Linear.forward(x) = x . weight^T + bias
Linear_forward(lin, x) ==
    LET xw == mm(x, Tensor(lin.weight.den,
                           Transpose(lin.weight.val, Cols(lin.weight.val))))
    IN  IF IsErr(xw) THEN xw ELSE add_bias(xw, lin.bias)

\* mlp = nn.Sequential(nn.Linear, nn.ReLU, nn.Linear, nn.ReLU, nn.Linear)
MLP_init(input_features, hidden_dim, num_classes, g) ==
    LET l0 == Linear_init(input_features, hidden_dim, g)
        l2 == Linear_init(hidden_dim, hidden_dim, l0.gen)
        l4 == Linear_init(hidden_dim, num_classes, l2.gen)
    IN  [model |-> <<l0.layer, l2.layer, l4.layer>>, gen |-> l4.gen]

\* mlp(x)
MLP_forward(model, x) ==
    LET h0 == Linear_forward(model[1], x) IN
    IF IsErr(h0) THEN h0
    ELSE LET h2 == Linear_forward(model[2], relu(h0)) IN
         IF IsErr(h2) THEN h2
         ELSE Linear_forward(model[3], relu(h2))

\* mlp_accuracy(model) with the globals it reads
mlp_accuracy(model, feats, labels, idx) ==
    LET selected == index(feats, idx)
        y_pred == IF IsErr(selected) THEN selected ELSE MLP_forward(model, selected)
        wanted == IF IsErr(y_pred) THEN y_pred ELSE index(labels, idx)
    IN  [training |-> FALSE,
         y_pred |-> y_pred,
         acc |-> IF IsErr(wanted) THEN wanted ELSE accuracy(y_pred, wanted)]

\* mlp = nn.Sequential(...); the MLP is built before the GCN
MLPConstruct(r) ==
    /\ run[r].pc = "start"
    /\ run[r].mlp = None
    /\ LET c == MLP_init(InFeatures, HiddenDim, NumClasses, run[r].gen)
       IN  run' = [run EXCEPT ![r] = [@ EXCEPT !.mlp = c.model, !.gen = c.gen]]
    /\ UNCHANGED Data

\* _ = mlp_accuracy(mlp)
MLPAccuracy(r) ==
    /\ run[r].mlp # None
    /\ LET res == mlp_accuracy(run[r].mlp, features, run[r].labels, idx_test)
       IN  run' = [run EXCEPT ![r] = [@ EXCEPT !.mlp_training = res.training,
                                                 !.mlp_y_pred = res.y_pred,
                                                 !.mlp_acc = res.acc]]
    /\ UNCHANGED Data

\* correct = get_predictions(mlp(features), labels)
MLPPredictions(r) ==
    /\ run[r].mlp # None
    /\ LET out == MLP_forward(run[r].mlp, features)
       IN  run' = [run EXCEPT ![r] = [@ EXCEPT
                    !.mlp_correct = IF IsErr(out) THEN out
                                    ELSE get_predictions(out, run[r].labels)]]
    /\ UNCHANGED Data

\* gcn = GCN(...), in the notebook after the MLP cells
GCNConstruct(r) ==
    /\ run[r].mlp # None
    /\ Construct(r)

\* Index sets of valid positions, in any order and with repetitions.
RowSelections ==
    UNION {[1..n -> 0..(NumNodes - 1)] : n \in 1..NumNodes}

InitMLP ==
    /\ features \in WordMatrices
    /\ adj \in ToyAdjMatrices
    /\ idx_train = Range(0, NumNodes)
    /\ idx_test \in RowSelections
    /\ \E seed \in {0, Seed}, labels \in ToyLabels :
        run = [r \in Runs |-> NewRun(seed, labels)]
    /\ x2 = features
    /\ ca = 1
    /\ cb = 0
    /\ conv = None

NextMLP ==
    \/ MLPConstruct(Main)
    \/ MLPAccuracy(Main)
    \/ MLPPredictions(Main)
    \/ GCNConstruct(Main)

SpecMLP == InitMLP /\ [][NextMLP]_vars

----------------------------------------------------------------------------
(* Row selection before and after the forward pass *)

\* The number of selected nodes the full-graph predictions got right.
CorrectAmong(correct, idx) == SeqSum([k \in 1..Len(idx) |-> correct.val[idx[k] + 1]])

\* adj[S][:, S]: the links among the selected nodes only.
Submatrix(a, idx) ==
    Tensor(a.den, [k \in 1..Len(idx) |-> [l \in 1..Len(idx) |->
                      a.val[idx[k] + 1][idx[l] + 1]]])

\* C18: the logits mlp_accuracy computes from the selected feature rows are,
\* row for row, the selected rows of the logits of the whole feature matrix,
\* and its accuracy is the fraction of selected nodes that the predictions on
\* the whole matrix get right.
C18_MLPCommutesWithRowSelection ==
    /\ run[Main].mlp_y_pred # None =>
          run[Main].mlp_y_pred = index(MLP_forward(run[Main].mlp, features), idx_test)
    /\ (run[Main].mlp_acc # None /\ run[Main].mlp_correct # None) =>
          run[Main].mlp_acc = [num |-> CorrectAmong(run[Main].mlp_correct, idx_test),
                               den |-> Len(idx_test)]

\* mlp_accuracy has run on a proper selection of the nodes that gets some node
\* right, and for the GCN on a graph with links the same selection does not
\* commute: the forward pass on the selected nodes and their links differs
\* from the selected rows of the forward pass on the whole graph.
C18_Witness ==
    /\ run[Main].mlp_acc # None
    /\ run[Main].mlp_correct # None
    /\ run[Main].mlp_acc.num > 0
    /\ Len(idx_test) < NumNodes
    /\ run[Main].gcn # None
    /\ \E i, j \in 1..NumNodes : i # j /\ adj.val[i][j] # 0
    /\ GCN_forward(run[Main].gcn, index(features, idx_test), Submatrix(adj, idx_test))
          # index(GCN_forward(run[Main].gcn, features, adj), idx_test)

----------------------------------------------------------------------------
(* The MLP training loop *)

\* The entries of grad where the rectifier's input was positive.
relu_backward(grad, input) ==
    Tensor(grad.den, [i \in 1..Rows(grad.val) |-> [j \in 1..Cols(grad.val) |->
                         IF input.val[i][j] > 0 THEN grad.val[i][j] ELSE 0]])

\* The gradients of one nn.Linear for the gradient g of its output: g^T . x
\* for the weight, the column sums of g for the bias.
Linear_backward(g, x) ==
    [weight |-> Tensor(g.den * x.den, MatMul(Transpose(g.val, Cols(g.val)), x.val)),
     bias |-> ColumnSums(g, Cols(g.val))]

\* The gradient of a nn.Linear's input: g . weight
Linear_input_grad(g, lin) == Tensor(g.den * lin.weight.den, MatMul(g.val, lin.weight.val))

\* The gradients loss.backward() computes for the six parameters of the MLP,
\* for the loss of mlp(x) against target.
mlp_gradients(model, x, target) ==
    LET h0 == Linear_forward(model[1], x)
        r0 == relu(h0)
        h2 == Linear_forward(model[2], r0)
        r2 == relu(h2)
        out == Linear_forward(model[3], r2)
        g4 == output_grad(out, target, Range(0, Rows(x.val)))
        g2 == relu_backward(Linear_input_grad(g4, model[3]), h2)
        g0 == relu_backward(Linear_input_grad(g2, model[2]), h0)
    IN  <<Linear_backward(g0, x), Linear_backward(g2, r0), Linear_backward(g4, r2)>>

\* loss.backward() on the MLP: the gradients are added to what .grad holds
mlp_backward(grad, g) ==
    IF grad = None THEN g
    ELSE [k \in 1..Len(g) |-> AddLayer(grad[k], g[k])]

\* optim.Adam(mlp.parameters())
mlp_Adam(model) ==
    [step |-> 0,
     exp_avg |-> [k \in 1..Len(model) |->
                    [weight |-> [i \in 1..Rows(model[k].weight.val) |->
                                    [j \in 1..Cols(model[k].weight.val) |-> 0]],
                     bias |-> [j \in 1..Len(model[k].bias.val) |-> 0]]]]

\* opt.step() on the MLP, as adam_step on the GCN
mlp_adam_step(model, opt, grad) ==
    IF grad = None THEN [model |-> model, opt |-> opt]
    ELSE
    LET avg(m, g) == [weight |-> [i \in 1..Len(m.weight) |-> [j \in 1..Len(m.weight[i]) |->
                                    9 * m.weight[i][j] + g.weight.val[i][j]]],
                      bias |-> [j \in 1..Len(m.bias) |-> 9 * m.bias[j] + g.bias.val[j]]]
        ms == [k \in 1..Len(model) |-> avg(opt.exp_avg[k], grad[k])]
        move(lin, m) ==
            [weight |-> Tensor(lin.weight.den,
                               [i \in 1..Len(m.weight) |-> [j \in 1..Len(m.weight[i]) |->
                                    lin.weight.val[i][j] - Sign(m.weight[i][j])]]),
             bias |-> Tensor(lin.bias.den,
                             [j \in 1..Len(m.bias) |-> lin.bias.val[j] - Sign(m.bias[j])])]
    IN  [model |-> [k \in 1..Len(model) |-> move(model[k], ms[k])],
         opt |-> [step |-> opt.step + 1, exp_avg |-> ms]]

\* opt = optim.Adam(mlp.parameters()); losses = []; mlp.train()
MLPTrainSetup(r) ==
    /\ run[r].mlp # None
    /\ run[r].mlp_pc = "ready"
    /\ run' = [run EXCEPT ![r] = [@ EXCEPT !.mlp_opt = mlp_Adam(run[r].mlp),
                                             !.mlp_losses = <<>>,
                                             !.mlp_training = TRUE,
                                             !.mlp_epoch = 0,
                                             !.mlp_pc = "zero_grad"]]
    /\ UNCHANGED Data

\* opt.zero_grad()
MLPZeroGrad(r) ==
    /\ run[r].mlp_pc = "zero_grad"
    /\ run' = [run EXCEPT ![r] = [@ EXCEPT !.mlp_grad = zero_grad(run[r].mlp_grad),
                                             !.mlp_pc = "forward"]]
    /\ UNCHANGED Data

\* output = mlp(features[idx_train])
MLPForward(r) ==
    /\ run[r].mlp_pc = "forward"
    /\ LET selected == index(features, idx_train)
           out == IF IsErr(selected) THEN selected ELSE MLP_forward(run[r].mlp, selected)
       IN  run' = [run EXCEPT ![r] = [@ EXCEPT !.mlp_output = out,
                        !.mlp_pc = IF IsErr(out) THEN "failed" ELSE "loss"]]
    /\ UNCHANGED Data

\* loss = F.cross_entropy(output, labels[idx_train])
MLPLoss(r) ==
    /\ run[r].mlp_pc = "loss"
    /\ LET wanted == index(run[r].labels, idx_train)
           l == IF IsErr(wanted) THEN wanted ELSE cross_entropy(run[r].mlp_output, wanted)
       IN  run' = [run EXCEPT ![r] = [@ EXCEPT !.mlp_loss = l,
                        !.mlp_pc = IF IsErr(l) THEN "failed" ELSE "backward"]]
    /\ UNCHANGED Data

\* loss.backward()
MLPBackward(r) ==
    /\ run[r].mlp_pc = "backward"
    /\ run' = [run EXCEPT ![r] = [@ EXCEPT
                    !.mlp_grad = mlp_backward(run[r].mlp_grad,
                                     mlp_gradients(run[r].mlp, index(features, idx_train),
                                                   index(run[r].labels, idx_train))),
                    !.mlp_pc = "step"]]
    /\ UNCHANGED Data

\* opt.step()
MLPStep(r) ==
    /\ run[r].mlp_pc = "step"
    /\ LET res == mlp_adam_step(run[r].mlp, run[r].mlp_opt, run[r].mlp_grad)
       IN  run' = [run EXCEPT ![r] = [@ EXCEPT !.mlp = res.model,
                                                 !.mlp_opt = res.opt,
                                                 !.mlp_pc = "append"]]
    /\ UNCHANGED Data

\* losses.append(loss.item()), and the loop's next epoch
MLPAppendLoss(r) ==
    /\ run[r].mlp_pc = "append"
    /\ run' = [run EXCEPT ![r] = [@ EXCEPT
                    !.mlp_losses = Append(run[r].mlp_losses, run[r].mlp_loss),
                    !.mlp_epoch = run[r].mlp_epoch + 1,
                    !.mlp_pc = IF run[r].mlp_epoch + 1 < MLPEpochs THEN "zero_grad"
                               ELSE "done"]]
    /\ UNCHANGED Data

MLPTrainingLoop(r) ==
    \/ MLPTrainSetup(r)
    \/ MLPZeroGrad(r)
    \/ MLPForward(r)
    \/ MLPLoss(r)
    \/ MLPBackward(r)
    \/ MLPStep(r)
    \/ MLPAppendLoss(r)

----------------------------------------------------------------------------
(* The notebook's cells in their order: the MLP, then the GCN *)

\* _ = mlp_accuracy(mlp) before the MLP's loop, accmlp = mlp_accuracy(mlp) after it
MLPEvaluation(r) ==
    /\ run[r].pc = "start"
    /\ run[r].mlp_pc \in {"ready", "done"}
    /\ MLPAccuracy(r)

\* gcn = GCN(...), once the MLP cells are through
GCNAfterMLP(r) ==
    /\ run[r].mlp_pc = "done"
    /\ Construct(r)

NextNotebook ==
    \/ MLPConstruct(Main)
    \/ MLPEvaluation(Main)
    \/ MLPTrainingLoop(Main)
    \/ GCNAfterMLP(Main)
    \/ GCNAccuracy(Main)
    \/ TrainingLoop(Main)

SpecNotebook == InitDet /\ [][NextNotebook]_vars

----------------------------------------------------------------------------
(* Termination of the training loops *)

\* The notebook runs its cells to completion: the constructions and every
\* statement of the two loops are eventually executed, and the calls into
\* torch that do the numerical work, the forward passes and loss.backward(),
\* return.
SpecLoop ==
    /\ SpecNotebook
    /\ WF_vars(MLPConstruct(Main))
    /\ WF_vars(MLPTrainSetup(Main))
    /\ WF_vars(MLPZeroGrad(Main))
    /\ []<>(run[Main].mlp_pc # "forward")
    /\ WF_vars(MLPLoss(Main))
    /\ []<>(run[Main].mlp_pc # "backward")
    /\ WF_vars(MLPStep(Main))
    /\ WF_vars(MLPAppendLoss(Main))
    /\ WF_vars(GCNAfterMLP(Main))
    /\ WF_vars(TrainSetup(Main))
    /\ WF_vars(ZeroGrad(Main))
    /\ []<>(run[Main].pc # "forward")
    /\ WF_vars(Loss(Main))
    /\ []<>(run[Main].pc # "backward")
    /\ WF_vars(Step(Main))
    /\ WF_vars(AppendLoss(Main))

MLPStepsTaken(r) == IF run[r].mlp_opt = None THEN 0 ELSE run[r].mlp_opt.step

\* C11: each loop ends, with exactly its epoch budget behind it (as many
\* losses recorded and optimizer steps taken), whatever the losses were; it
\* never leaves the loop earlier and never records more.
C11_LoopRunsItsEpochBudget ==
    /\ <>(run[Main].mlp_pc = "done")
    /\ <>(run[Main].pc = "done")
    /\ [](run[Main].mlp_pc = "done" =>
            /\ run[Main].mlp_epoch = MLPEpochs
            /\ Len(run[Main].mlp_losses) = MLPEpochs
            /\ MLPStepsTaken(Main) = MLPEpochs)
    /\ [](run[Main].pc = "done" =>
            /\ run[Main].epoch = MaxEpochs
            /\ Len(run[Main].losses) = MaxEpochs
            /\ StepsTaken(Main) = MaxEpochs)
    /\ [](/\ Len(run[Main].mlp_losses) <= MLPEpochs
          /\ MLPStepsTaken(Main) <= MLPEpochs
          /\ Len(run[Main].losses) <= MaxEpochs
          /\ StepsTaken(Main) <= MaxEpochs)
    /\ [][/\ run[Main].mlp_pc = "done" => run'[Main].mlp_pc = "done"
          /\ run[Main].pc = "done" => run'[Main].pc = "done"]_vars

\* Both loops have ended, the GCN's although its loss was already zero before
\* the last epoch.
C11_Witness ==
    /\ run[Main].mlp_pc = "done"
    /\ Len(run[Main].mlp_losses) = MLPEpochs
    /\ run[Main].pc = "done"
    /\ Len(run[Main].losses) = MaxEpochs
    /\ \E k \in 1..(MaxEpochs - 1) : run[Main].losses[k].num = 0

----------------------------------------------------------------------------
(* The gradient an optimizer step consumes *)

\* C17: in both loops the stored gradients are cleared when an iteration
\* starts and stay cleared until its backward pass, so the gradient in place
\* when opt.step() runs is the gradient of this iteration's loss alone, in
\* every epoch and whatever evaluation ran before the loop.
C17_StepConsumesThisIterationsGradient ==
    /\ run[Main].pc \in {"forward", "loss", "backward"} => run[Main].grad = None
    /\ run[Main].pc = "step" =>
          run[Main].grad = gradients(run[Main].gcn, features, adj,
                                     run[Main].labels, idx_train)
    /\ run[Main].mlp_pc \in {"forward", "loss", "backward"} => run[Main].mlp_grad = None
    /\ run[Main].mlp_pc = "step" =>
          run[Main].mlp_grad = mlp_gradients(run[Main].mlp, index(features, idx_train),
                                             index(run[Main].labels, idx_train))

\* The GCN's last iteration is about to take its optimizer step with a
\* non-zero gradient, after the MLP's loop took its steps with a non-zero
\* gradient and after evaluations ran forward passes outside the loops.
C17_Witness ==
    /\ run[Main].pc = "step"
    /\ run[Main].epoch = MaxEpochs - 1
    /\ run[Main].acc # None
    /\ \E j \in 1..NumClasses : run[Main].grad.gc2.bias.val[j] # 0
    /\ run[Main].mlp_pc = "done"
    /\ run[Main].mlp_acc # None
    /\ \E j \in 1..NumClasses : run[Main].mlp_grad[3].bias.val[j] # 0

====
